---- MODULE Spec2Model ----
(***************************************************************************)
(* Portfolio performance-metrics engine of the streamlit_task dashboard    *)
(* (processing.py), the composition pass and the results pass of main      *)
(* (main.py), and the price table of the exercise2 dashboard with its      *)
(* paginated query (exercise2/query.py).                                   *)
(*                                                                         *)
(* Numbers are IEEE-754 doubles in the program.  They are modelled as      *)
(* exact rationals extended with the three special values the program can  *)
(* produce: NaN (the not-computable marker), +infinity and -infinity,      *)
(* with the IEEE rules for the special cases (x/0, inf-inf, 0*inf, ...).   *)
(* The sign of zero is not modelled.  Sums and products are exact as long  *)
(* as numerator and denominator fit a machine integer and are rounded      *)
(* beyond that; square roots are taken to about three digits (SqrtScale).  *)
(***************************************************************************)
EXTENDS Integers, Sequences, FiniteSets, TLC

VARIABLES a, b, call, result, portfolio, data, benchmark_data, pc, metrics,
          total_value, new_asset_class, new_asset_ticker, new_asset_type,
          allocation_type, widget,
          crypto_prices, now, browse, pages

\* st.session_state of the portfolio simulator, the part the composition
\* pass reads besides the portfolio
composeVars ==
    <<total_value, new_asset_class, new_asset_ticker, new_asset_type,
      allocation_type, widget>>

\* the crypto_prices table, the clock of the database, and the pages a
\* reader has loaded of the current table content
queryVars == <<crypto_prices, now, browse, pages>>

vars == <<a, b, call, result, portfolio, data, benchmark_data, pc, metrics,
          composeVars, queryVars>>

(***************************************************************************)
(* Bounds of the model                                                     *)
(***************************************************************************)
\* timestamps of the input series are drawn from 1..MaxT
MaxT == 3
\* timestamps of the benchmark series are drawn from 1..MaxTB
MaxTB == 2
\* the price data cover at most the dates 1..MaxDates
MaxDates == 3
\* square roots are computed to 1/SqrtScale
SqrtScale == 1000
\* the crypto_prices table holds at most MaxRows rows
MaxRows == 3
\* the clock of the database runs through the seconds 1..MaxNow
MaxNow == 2
\* the reader asks for the pages 1..MaxPage
MaxPage == 3
\* the reader asks for 1..MaxPageSize rows per page
MaxPageSize == 2

(***************************************************************************)
(* Program constants                                                       *)
(***************************************************************************)
\* trading days per year, the annualization factor
TradingDays == 252

(***************************************************************************)
(* Extended rational arithmetic (float64 values)                           *)
(***************************************************************************)
RECURSIVE Gcd(_, _)
Gcd(x, y) == IF y = 0 THEN x ELSE Gcd(y, x % y)

Abs(x) == IF x < 0 THEN -x ELSE x

Sgn(x) == IF x < 0 THEN -1 ELSE IF x > 0 THEN 1 ELSE 0

\* the rational n/d (d # 0) in lowest terms with a positive denominator
Q(n, d) ==
    LET g == Gcd(Abs(n), Abs(d))
        s == IF d < 0 THEN -1 ELSE 1
    IN  [k |-> "num", n |-> s * (n \div g), d |-> s * (d \div g)]

NaN == [k |-> "nan", n |-> 0, d |-> 1]
PInf == [k |-> "inf", n |-> 1, d |-> 1]
NInf == [k |-> "inf", n |-> -1, d |-> 1]
Zero == Q(0, 1)
One == Q(1, 1)

Inf(s) == IF s < 0 THEN NInf ELSE PInf

IsNaN(x) == x.k = "nan"
IsInf(x) == x.k = "inf"
IsNum(x) == x.k = "num"
IsZero(x) == x.k = "num" /\ x.n = 0
Sign(x) == Sgn(x.n)

Neg(x) == IF IsNaN(x) THEN NaN ELSE [x EXCEPT !.n = -x.n]

\* the largest machine integer of the model checker
MaxInt == 2147483646 + 1

Fits(x, y) == x = 0 \/ y = 0 \/ Abs(x) <= MaxInt \div Abs(y)

Max(x, y) == IF x >= y THEN x ELSE y

\* n/d can be rounded by halving both without losing its sign or size
Roundable(n, d) == Abs(n) > 1 /\ d > 1

Half(n) == Sgn(n) * (Abs(n) \div 2)

\* n1/d1 + n2/d2.  The sum is exact when it fits the machine integers;
\* otherwise the operand with the larger numerator or denominator is
\* rounded (both halved) until it does; a sum beyond the machine integers
\* saturates at +-MaxInt, and an operand too small to matter is dropped.
RECURSIVE AddFit(_, _, _, _)
AddFit(n1, d1, n2, d2) ==
    LET g == Gcd(d1, d2)
        first == Max(Abs(n1), d1) >= Max(Abs(n2), d2)
    IN  IF /\ Fits(n1, d2 \div g)
           /\ Fits(n2, d1 \div g)
           /\ Fits(d1 \div g, d2)
           /\ Abs(n1 * (d2 \div g)) <= MaxInt - Abs(n2 * (d1 \div g))
        THEN Q(n1 * (d2 \div g) + n2 * (d1 \div g), (d1 \div g) * d2)
        ELSE IF Roundable(n1, d1) /\ (first \/ ~Roundable(n2, d2))
             THEN AddFit(Half(n1), Half(d1), n2, d2)
        ELSE IF Roundable(n2, d2)
             THEN AddFit(n1, d1, Half(n2), Half(d2))
        ELSE IF d1 = 1 /\ Abs(n1) >= Abs(n2) THEN Q(Sgn(n1) * MaxInt, 1)
        ELSE IF d2 = 1 THEN Q(Sgn(n2) * MaxInt, 1)
        ELSE IF d1 = 1 THEN Q(n1, 1)
        ELSE IF d1 <= d2 THEN Q(n1, d1)
        ELSE Q(n2, d2)

Add(x, y) ==
    IF IsNaN(x) \/ IsNaN(y) THEN NaN
    ELSE IF IsInf(x) /\ IsInf(y) THEN (IF x.n = y.n THEN x ELSE NaN)
    ELSE IF IsInf(x) THEN x
    ELSE IF IsInf(y) THEN y
    ELSE AddFit(x.n, x.d, y.n, y.d)

Sub(x, y) == Add(x, Neg(y))

\* (n1/d1) * (n2/d2).  The product is exact when it fits the machine
\* integers; otherwise the larger operand is rounded (numerator and
\* denominator halved) until it does; a product beyond the machine integers
\* saturates at +-MaxInt or +-1/MaxInt.  The sign of the product is exact
\* and a nonzero product is nonzero.
RECURSIVE MulFit(_, _, _, _)
MulFit(n1, d1, n2, d2) ==
    LET first == Max(Abs(n1), d1) >= Max(Abs(n2), d2)
    IN  IF Fits(n1, n2) /\ Fits(d1, d2) THEN Q(n1 * n2, d1 * d2)
        ELSE IF Roundable(n1, d1) /\ (first \/ ~Roundable(n2, d2))
             THEN MulFit(Half(n1), Half(d1), n2, d2)
        ELSE IF Roundable(n2, d2)
             THEN MulFit(n1, d1, Half(n2), Half(d2))
        ELSE IF ~Fits(n1, n2) THEN Q(Sgn(n1) * Sgn(n2) * MaxInt, 1)
        ELSE Q(Sgn(n1) * Sgn(n2), MaxInt)

Mul(x, y) ==
    IF IsNaN(x) \/ IsNaN(y) THEN NaN
    ELSE IF IsInf(x) \/ IsInf(y)
         THEN (IF Sign(x) * Sign(y) = 0 THEN NaN ELSE Inf(Sign(x) * Sign(y)))
    ELSE LET g1 == Gcd(Abs(x.n), y.d)
             g2 == Gcd(Abs(y.n), x.d)
         IN  MulFit(x.n \div g1, x.d \div g2, y.n \div g2, y.d \div g1)

\* float64 division: x/0 is +-inf for x # 0 and NaN for x = 0, no exception
Div(x, y) ==
    IF IsNaN(x) \/ IsNaN(y) THEN NaN
    ELSE IF IsInf(y) THEN (IF IsInf(x) THEN NaN ELSE Zero)
    ELSE IF IsInf(x) THEN Inf(Sign(x) * (IF Sign(y) < 0 THEN -1 ELSE 1))
    ELSE IF y.n = 0 THEN (IF x.n = 0 THEN NaN ELSE Inf(Sign(x)))
    ELSE Mul(x, Q(y.d, y.n))

\* x < y on values that are not NaN
Less(x, y) ==
    IF IsInf(x) THEN x.n < 0 /\ ~(IsInf(y) /\ y.n < 0)
    ELSE IF IsInf(y) THEN y.n > 0
    ELSE x.n * y.d < y.n * x.d

Leq(x, y) == x = y \/ Less(x, y)

RECURSIVE ISqrtFrom(_, _)
ISqrtFrom(n, x) ==
    LET y == (x + n \div x) \div 2
    IN  IF y >= x THEN x ELSE ISqrtFrom(n, y)

\* floor of the square root of a natural number
ISqrt(n) == IF n < 2 THEN n ELSE ISqrtFrom(n, n)

\* the largest operand whose product with SqrtScale^2 is a machine integer
SqrtLimit == MaxInt \div (SqrtScale * SqrtScale)

\* p/q with p halved, and q with it, until p is at most SqrtLimit
RECURSIVE Shrink(_, _)
Shrink(p, q) ==
    IF p <= SqrtLimit THEN <<p, IF q < 1 THEN 1 ELSE q>>
    ELSE Shrink(p \div 2, q \div 2)

\* np.sqrt: NaN below zero, zero at zero, and for x > 0 a positive root to
\* about three digits (directly for x >= 1, through 1/sqrt(1/x) for x < 1)
Sqrt(x) ==
    IF IsNaN(x) THEN NaN
    ELSE IF IsInf(x) THEN (IF x.n > 0 THEN PInf ELSE NaN)
    ELSE IF x.n < 0 THEN NaN
    ELSE IF x.n = 0 THEN Zero
    ELSE IF x.n >= x.d
         THEN LET r == Shrink(x.n, x.d)
              IN  Q(ISqrt((r[1] * SqrtScale * SqrtScale) \div r[2]), SqrtScale)
    ELSE LET r == Shrink(x.d, x.n)
         IN  Q(SqrtScale, ISqrt((r[1] * SqrtScale * SqrtScale) \div r[2]))

(***************************************************************************)
(* pandas Series: a sequence of [t |-> timestamp, v |-> value], its index  *)
(* strictly increasing                                                     *)
(***************************************************************************)
Point(t, v) == [t |-> t, v |-> v]

\* the function f on 1..n as an explicit tuple (evaluated once, not on
\* every application)
AsSeq(f) == f \o <<>>

Index(s) == {s[i].t : i \in 1..Len(s)}

\* the value of s at timestamp t, NaN where s has no such label (reindexing)
At(s, t) ==
    IF t \in Index(s) THEN s[CHOOSE i \in 1..Len(s) : s[i].t = t].v ELSE NaN

IsSorted(s) == \A i \in 1..(Len(s) - 1) : s[i].t < s[i + 1].t

\* the entries of s that satisfy keep, in the order of s
Filter(s, keep(_)) == SelectSeq(s, keep)

\* elementwise f on the values, the index kept
Map(s, f(_)) == AsSeq([i \in 1..Len(s) |-> Point(s[i].t, f(s[i].v))])

RECURSIVE SumV(_)
SumV(s) == IF s = <<>> THEN Zero ELSE Add(s[1].v, SumV(Tail(s)))

\* Series.dropna()
dropna(s) == Filter(s, LAMBDA e : ~IsNaN(e.v))

\* Series.fillna(v)
fillna(s, v) == Map(s, LAMBDA x : IF IsNaN(x) THEN v ELSE x)

\* Series.ffill(): a missing value takes the last value before it
RECURSIVE ffill_from(_, _)
ffill_from(s, last) ==
    IF s = <<>> THEN <<>>
    ELSE LET v == IF IsNaN(s[1].v) THEN last ELSE s[1].v
         IN  <<Point(s[1].t, v)>> \o ffill_from(Tail(s), v)

ffill(s) == ffill_from(s, NaN)

\* Series.pct_change(): data = fillna(method='pad'); data / data.shift(1) - 1
pct_change(s) ==
    LET f == ffill(s)
    IN  AsSeq([i \in 1..Len(s) |->
                 Point(s[i].t, IF i = 1 THEN NaN
                               ELSE Sub(Div(f[i].v, f[i - 1].v), One))])

\* Series.cumsum() in the place of cumprod(): the running sum
RECURSIVE cumsum_from(_, _)
cumsum_from(s, acc) ==
    IF s = <<>> THEN <<>>
    ELSE IF IsNaN(s[1].v) THEN <<s[1]>> \o cumsum_from(Tail(s), acc)
    ELSE LET m == Add(acc, s[1].v)
         IN  <<Point(s[1].t, m)>> \o cumsum_from(Tail(s), m)

cumsum(s) == cumsum_from(s, Zero)

\* Series.cumprod(): missing values are skipped and stay missing
RECURSIVE cumprod_from(_, _)
cumprod_from(s, acc) ==
    IF s = <<>> THEN <<>>
    ELSE IF IsNaN(s[1].v) THEN <<s[1]>> \o cumprod_from(Tail(s), acc)
    ELSE LET m == Mul(acc, s[1].v)
         IN  <<Point(s[1].t, m)>> \o cumprod_from(Tail(s), m)

cumprod(s) == cumprod_from(s, One)

\* Series.expanding(min_periods=1).max(): the running maximum of the values
\* seen so far that are not missing
RECURSIVE expanding_max_from(_, _)
expanding_max_from(s, best) ==
    IF s = <<>> THEN <<>>
    ELSE LET m == IF IsNaN(s[1].v) THEN best
                  ELSE IF IsNaN(best) \/ Less(best, s[1].v) THEN s[1].v
                  ELSE best
         IN  <<Point(s[1].t, m)>> \o expanding_max_from(Tail(s), m)

expanding_max(s) == expanding_max_from(s, NaN)

\* the sorted union of two sorted indexes, as a sequence
RECURSIVE SortedSeq(_)
SortedSeq(S) ==
    IF S = {} THEN <<>>
    ELSE LET m == CHOOSE x \in S : \A y \in S : x <= y
         IN  <<m>> \o SortedSeq(S \ {m})

\* x - y on two Series: the operands are aligned on the union of the two
\* indexes, a label missing on either side gives NaN
series_sub(x, y) ==
    LET idx == SortedSeq(Index(x) \cup Index(y))
    IN  AsSeq([i \in 1..Len(idx) |->
                 Point(idx[i], Sub(At(x, idx[i]), At(y, idx[i])))])

\* x / y on two Series with the same index
series_div(x, y) ==
    LET idx == SortedSeq(Index(x) \cup Index(y))
    IN  AsSeq([i \in 1..Len(idx) |->
                 Point(idx[i], Div(At(x, idx[i]), At(y, idx[i])))])

\* Series.mean(), skipna: NaN for no values
mean(s) ==
    LET v == dropna(s)
    IN  IF v = <<>> THEN NaN ELSE Div(SumV(v), Q(Len(v), 1))

\* Series.var(ddof), skipna: NaN when count <= ddof
var(s, ddof) ==
    LET v == dropna(s)
        m == mean(v)
        sq == Map(v, LAMBDA x : Mul(Sub(m, x), Sub(m, x)))
    IN  IF Len(v) <= ddof THEN NaN ELSE Div(SumV(sq), Q(Len(v) - ddof, 1))

\* Series.std(ddof)
std(s, ddof) == Sqrt(var(s, ddof))

\* Series.min(), skipna: NaN for no values
RECURSIVE min_from(_, _)
min_from(s, best) ==
    IF s = <<>> THEN best
    ELSE IF IsNaN(s[1].v) THEN min_from(Tail(s), best)
    ELSE IF IsNaN(best) \/ Less(s[1].v, best) THEN min_from(Tail(s), s[1].v)
    ELSE min_from(Tail(s), best)

series_min(s) == min_from(s, NaN)

\* the values of s in ascending order
RECURSIVE Insert(_, _)
Insert(sorted, x) ==
    IF sorted = <<>> THEN <<x>>
    ELSE IF Leq(x, sorted[1]) THEN <<x>> \o sorted
    ELSE <<sorted[1]>> \o Insert(Tail(sorted), x)

RECURSIVE SortValues(_)
SortValues(s) ==
    IF s = <<>> THEN <<>> ELSE Insert(SortValues(Tail(s)), s[1].v)

\* Series.quantile(q), q = qn/qd: missing values dropped, linear
\* interpolation between the two nearest order statistics
quantile(s, qn, qd) ==
    LET x == SortValues(dropna(s))
        n == Len(x)
        lo == ((n - 1) * qn) \div qd
        frac == Q((n - 1) * qn - lo * qd, qd)
    IN  IF n = 0 THEN NaN
        ELSE IF IsZero(frac) THEN x[lo + 1]
        ELSE Add(x[lo + 1], Mul(Sub(x[lo + 2], x[lo + 1]), frac))

\* np.sqrt(252)
SqrtA == Sqrt(Q(TradingDays, 1))

\* the default risk_free_rate = 0.01
DefaultRiskFree == Q(1, 100)

(***************************************************************************)
(* processing.py                                                           *)
(***************************************************************************)
\* calculate_cumulative_returns without the fillna(0) of the first return
calculate_cumulative_returns_nofill(prices) ==
    LET returns == pct_change(prices)
    IN  Map(cumprod(Map(returns, LAMBDA r : Add(One, r))),
            LAMBDA c : Sub(c, One))

calculate_cumulative_returns(prices) ==
    LET returns == fillna(pct_change(prices), Zero)
    IN  Map(cumprod(Map(returns, LAMBDA r : Add(One, r))),
            LAMBDA c : Sub(c, One))

calculate_annual_volatility(returns) == Mul(std(returns, 1), SqrtA)

calculate_sharpe_ratio(returns, risk_free_rate) ==
    LET excess_returns ==
            Sub(mean(returns), Div(risk_free_rate, Q(TradingDays, 1)))
    IN  Mul(Div(excess_returns, std(returns, 1)), SqrtA)

calculate_maximum_drawdown(cumulative_returns) ==
    LET peak == expanding_max(cumulative_returns)
        drawdown == series_div(series_sub(cumulative_returns, peak), peak)
    IN  series_min(drawdown)

\* confidence = cn/cd
calculate_var(returns, cn, cd, period) ==
    IF returns = <<>> THEN NaN
    ELSE LET v == quantile(returns, cd - cn, cd)
             var_annual == Mul(v, Sqrt(Q(period, 1)))
         IN  Neg(var_annual)

\* np.std / np.mean of a Series call Series.std(ddof=0) / Series.mean()
calculate_tracking_error(portfolio_returns, benchmark_returns) ==
    Mul(std(series_sub(portfolio_returns, benchmark_returns), 0), SqrtA)

calculate_information_ratio(portfolio_returns, benchmark_returns) ==
    LET excess_returns == series_sub(portfolio_returns, benchmark_returns)
    IN  Mul(Div(mean(excess_returns), std(excess_returns, 0)), SqrtA)

\* Series.align(other, join='inner'): both reduced to the common labels
align_inner(x, y) ==
    <<Filter(x, LAMBDA e : e.t \in Index(y)),
      Filter(y, LAMBDA e : e.t \in Index(x))>>

\* concat(...).dropna(subset=[0]): only the first column decides the drop
concat_dropna_first(x, y) ==
    LET idx == SortedSeq(Index(x) \cup Index(y))
        rows == AsSeq([i \in 1..Len(idx) |->
                    [t |-> idx[i], x |-> At(x, idx[i]), y |-> At(y, idx[i])]])
    IN  Filter(rows, LAMBDA r : ~IsNaN(r.x))

\* concat(...).fillna(0): the missing values filled instead of dropped
concat_fillna(x, y) ==
    LET idx == SortedSeq(Index(x) \cup Index(y))
        fill(v) == IF IsNaN(v) THEN Zero ELSE v
    IN  AsSeq([i \in 1..Len(idx) |->
                 [t |-> idx[i], x |-> fill(At(x, idx[i])),
                  y |-> fill(At(y, idx[i]))]])

\* pd.concat([x, y], axis=1).dropna(): one row per label of either column,
\* the rows with a missing value in any column dropped
concat_dropna(x, y) ==
    LET idx == SortedSeq(Index(x) \cup Index(y))
        rows == AsSeq([i \in 1..Len(idx) |->
                    [t |-> idx[i], x |-> At(x, idx[i]), y |-> At(y, idx[i])]])
    IN  Filter(rows, LAMBDA r : ~IsNaN(r.x) /\ ~IsNaN(r.y))

\* lines 78-81 of calculate_alpha_beta: valid_data
valid_data(portfolio_returns, benchmark_returns) ==
    LET al == align_inner(portfolio_returns, benchmark_returns)
    IN  concat_dropna(al[1], al[2])

\* valid_data.iloc[:, 0] and valid_data.iloc[:, 1]
column0(vd) == AsSeq([i \in 1..Len(vd) |-> Point(vd[i].t, vd[i].x)])
column1(vd) == AsSeq([i \in 1..Len(vd) |-> Point(vd[i].t, vd[i].y)])

\* np.cov(x, y)[0][1]: the sample covariance, normalised by n - 1
cov(x, y) ==
    LET mx == mean(x)
        my == mean(y)
        pr == AsSeq([i \in 1..Len(x) |->
                  Point(x[i].t, Mul(Sub(x[i].v, mx), Sub(y[i].v, my)))])
    IN  Div(SumV(pr), Q(Len(x) - 1, 1))

\* returns <<alpha, beta>>
calculate_alpha_beta(portfolio_returns, benchmark_returns) ==
    LET vd == valid_data(portfolio_returns, benchmark_returns)
        p == column0(vd)
        bm == column1(vd)
        covariance == cov(p, bm)
        benchmark_variance == var(bm, 0)
        beta == Div(covariance, benchmark_variance)
        alpha == Sub(mean(p), Mul(beta, mean(bm)))
    IN  IF Len(vd) < 2 THEN <<NaN, NaN>>
        ELSE IF IsZero(benchmark_variance) THEN <<NaN, NaN>>
        ELSE <<Mul(alpha, Q(TradingDays, 1)), beta>>

\* calculate_sortino_ratio without the test of downside_deviation != 0
calculate_sortino_ratio_noguard(returns, risk_free_rate) ==
    LET rf == Div(risk_free_rate, Q(TradingDays, 1))
        excess_returns == Map(returns, LAMBDA r : Sub(r, rf))
        downside_returns ==
            Map(excess_returns,
                LAMBDA e : IF IsNaN(e) THEN NaN
                           ELSE IF Less(e, Zero) THEN e ELSE Zero)
        downside_deviation ==
            Mul(Sqrt(mean(Map(downside_returns, LAMBDA x : Mul(x, x)))), SqrtA)
    IN  Div(Mul(mean(excess_returns), Q(TradingDays, 1)), downside_deviation)

calculate_sortino_ratio(returns, risk_free_rate) ==
    LET rf == Div(risk_free_rate, Q(TradingDays, 1))
        excess_returns == Map(returns, LAMBDA r : Sub(r, rf))
        downside_returns ==
            Map(excess_returns,
                LAMBDA e : IF IsNaN(e) THEN NaN
                           ELSE IF Less(e, Zero) THEN e ELSE Zero)
        downside_deviation ==
            Mul(Sqrt(mean(Map(downside_returns, LAMBDA x : Mul(x, x)))), SqrtA)
    IN  IF ~IsZero(downside_deviation)
        THEN Div(Mul(mean(excess_returns), Q(TradingDays, 1)), downside_deviation)
        ELSE NaN

(***************************************************************************)
(* main.py: the data and results part of main                              *)
(***************************************************************************)
\* x + y on two Series, aligned on the union of the two indexes
series_add(x, y) ==
    LET idx == SortedSeq(Index(x) \cup Index(y))
    IN  AsSeq([i \in 1..Len(idx) |->
                 Point(idx[i], Add(At(x, idx[i]), At(y, idx[i])))])

\* x ** e for a natural number e
RECURSIVE Pow(_, _)
Pow(x, e) ==
    IF e = 0 THEN One
    ELSE LET h == Pow(x, e \div 2)
         IN  IF e % 2 = 0 THEN Mul(h, h) ELSE Mul(Mul(h, h), x)

\* the number shown by a format with a fixed number of decimals: x rounded
\* to the nearest multiple of 1/scale, ties to even; nan and inf are shown
\* as such
RoundTo(x, scale) ==
    IF ~IsNum(x) THEN x
    ELSE LET y == Mul(x, Q(scale, 1))
             fl == y.n \div y.d
             rem == y.n - fl * y.d
             up == rem > y.d - rem \/ (rem = y.d - rem /\ fl % 2 = 1)
         IN  Q(IF up THEN fl + 1 ELSE fl, scale)

\* f"{x:.2%}"
FormatPercent(x) == RoundTo(x, 10000)

\* f"{x:.2f}"
FormatFixed(x) == RoundTo(x, 100)

\* index[i].strftime('%m/%d/%Y')
FormatDate(t) == [k |-> "date", n |-> t, d |-> 1]

\* the tickers of the portfolio, in the order of the dictionary, that have a
\* positive weight and non-empty price data (lines 219-228)
valid_tickers(pf, dt) ==
    SelectSeq(pf, LAMBDA asset :
                  Less(Zero, asset.weight) /\ dt[asset.ticker] # <<>>)

\* lines 235-237: pd.Series(0, index of the first valid ticker), then
\* += pct_change() * weight for every valid ticker
RECURSIVE add_weighted_returns(_, _, _)
add_weighted_returns(acc, assets, dt) ==
    IF assets = <<>> THEN acc
    ELSE add_weighted_returns(
            series_add(acc, Map(pct_change(dt[assets[1].ticker]),
                                LAMBDA r : Mul(r, assets[1].weight))),
            Tail(assets), dt)

portfolio_returns_of(pf, dt) ==
    LET vt == valid_tickers(pf, dt)
    IN  add_weighted_returns(Map(dt[vt[1].ticker], LAMBDA x : Zero), vt, dt)

\* lines 241-243: the benchmark could not be fetched, benchmark_returns = None
benchmark_is_none(bd) == bd = <<>>

\* line 245
benchmark_returns_of(bd) == dropna(pct_change(bd))

\* lines 248-255: <<cumulative_returns, benchmark_cumulative_returns>>
cumulative_pair(pf, dt, bd) ==
    LET cumulative_returns ==
            calculate_cumulative_returns(portfolio_returns_of(pf, dt))
    IN  IF benchmark_is_none(bd) THEN <<cumulative_returns, <<>>>>
        ELSE align_inner(cumulative_returns,
                         calculate_cumulative_returns(benchmark_returns_of(bd)))

MetricNames ==
    {"startDate", "endDate", "cumulativeRet", "annRet", "annVol",
     "VaR95 (annually)", "maxDrawdown", "trackingError", "infoRatio",
     "sharpeRatio", "sortinoRatio", "alpha (vs SP500)", "beta (vs SP500)"}

\* lines 274-307: the metrics dictionary
metrics_of(pf, dt, bd) ==
    LET portfolio_returns == portfolio_returns_of(pf, dt)
        benchmark_returns == benchmark_returns_of(bd)
        cumulative_returns == cumulative_pair(pf, dt, bd)[1]
        ab == calculate_alpha_beta(portfolio_returns, benchmark_returns)
    IN  [m \in MetricNames |->
            CASE m = "startDate" -> FormatDate(portfolio_returns[1].t)
              [] m = "endDate" ->
                    FormatDate(portfolio_returns[Len(portfolio_returns)].t)
              [] m = "cumulativeRet" ->
                    FormatPercent(cumulative_returns[Len(cumulative_returns)].v)
              [] m = "annRet" ->
                    FormatPercent(Sub(Pow(Add(One, mean(portfolio_returns)),
                                          TradingDays), One))
              [] m = "annVol" ->
                    FormatPercent(calculate_annual_volatility(portfolio_returns))
              [] m = "VaR95 (annually)" ->
                    FormatPercent(calculate_var(portfolio_returns, 95, 100,
                                                TradingDays))
              [] m = "maxDrawdown" ->
                    FormatPercent(calculate_maximum_drawdown(cumulative_returns))
              [] m = "trackingError" ->
                    FormatPercent(calculate_tracking_error(portfolio_returns,
                                                           benchmark_returns))
              [] m = "infoRatio" ->
                    FormatFixed(calculate_information_ratio(portfolio_returns,
                                                            benchmark_returns))
              [] m = "sharpeRatio" ->
                    FormatFixed(calculate_sharpe_ratio(portfolio_returns,
                                                       DefaultRiskFree))
              [] m = "sortinoRatio" ->
                    FormatFixed(calculate_sortino_ratio(portfolio_returns,
                                                        DefaultRiskFree))
              [] m = "alpha (vs SP500)" -> FormatPercent(ab[1])
              [] m = "beta (vs SP500)" -> FormatFixed(ab[2])]

(***************************************************************************)
(* Session state and table, as the programs create them                    *)
(***************************************************************************)
\* st.session_state.total_value, its default
DefaultTotalValue == Q(100000, 1)

\* the keys the portfolio dictionary can hold
Tickers == {"AAA", "BBB"}

\* the asset classes and the types of each, in the order of the dictionary
ASSET_CLASSES ==
    <<[class |-> "Equity", types |-> <<"Stock">>],
      [class |-> "Fixed Income", types |-> <<"Fixed Income">>],
      [class |-> "Commodities", types |-> <<"Commodity">>],
      [class |-> "Crypto", types |-> <<"Crypto">>]>>

\* the session state before any input: the default total value, the first
\* option of each select box, an empty ticker field
ComposeIdle ==
    /\ total_value = DefaultTotalValue
    /\ new_asset_class = ASSET_CLASSES[1].class
    /\ new_asset_ticker = ""
    /\ new_asset_type = ASSET_CLASSES[1].types[1]
    /\ allocation_type = "% Weighted"
    /\ widget = [t \in Tickers |-> Zero]

\* the table as create_table leaves it: no row
QueryIdle ==
    /\ crypto_prices = <<>>
    /\ now = 1
    /\ browse = <<>>
    /\ pages = <<>>

(***************************************************************************)
(* Inputs                                                                  *)
(***************************************************************************)
\* the return (or price) values of the first series; NaN is a missing value
ValuesA == {Q(-1, 10), Q(1, 10), Q(1, 5), NaN}

\* the return values of the second (benchmark) series
ValuesB == {Q(1, 10), Q(1, 5), NaN}

\* every Series with an increasing index within 1..maxT and values in V
SeriesOver(maxT, V) ==
    UNION {{AsSeq([i \in 1..Cardinality(S) |->
                      Point(SortedSeq(S)[i], f[SortedSeq(S)[i]])]) :
                f \in [S -> V]} : S \in SUBSET (1..maxT)}

(***************************************************************************)
(* The metrics engine: one call of one function of processing.py on the    *)
(* series a (and b)                                                        *)
(***************************************************************************)
NoPortfolio == <<>>

EngineIdle ==
    /\ portfolio = NoPortfolio
    /\ data = [t \in {} |-> <<>>]
    /\ benchmark_data = <<>>
    /\ pc = "engine"
    /\ metrics = <<>>
    /\ ComposeIdle
    /\ QueryIdle

Init ==
    /\ a \in SeriesOver(MaxT, ValuesA)
    /\ b \in SeriesOver(MaxTB, ValuesB)
    /\ call = "none"
    /\ result = <<>>
    /\ EngineIdle

Return(name, value) ==
    /\ call = "none"
    /\ call' = name
    /\ result' = value
    /\ UNCHANGED <<composeVars, queryVars, a, b, portfolio, data, benchmark_data, pc, metrics>>

CallCumulativeReturns ==
    Return("calculate_cumulative_returns", calculate_cumulative_returns(a))

CallAnnualVolatility ==
    Return("calculate_annual_volatility", <<calculate_annual_volatility(a)>>)

CallSharpeRatio ==
    Return("calculate_sharpe_ratio",
           <<calculate_sharpe_ratio(a, DefaultRiskFree)>>)

\* as in main: the drawdown of the cumulative series built from a
CallMaximumDrawdown ==
    Return("calculate_maximum_drawdown",
           <<calculate_maximum_drawdown(calculate_cumulative_returns(a))>>)

CallVar ==
    Return("calculate_var", <<calculate_var(a, 95, 100, TradingDays)>>)

CallTrackingError ==
    Return("calculate_tracking_error", <<calculate_tracking_error(a, b)>>)

CallInformationRatio ==
    Return("calculate_information_ratio", <<calculate_information_ratio(a, b)>>)

CallAlphaBeta ==
    Return("calculate_alpha_beta", calculate_alpha_beta(a, b))

CallSortinoRatio ==
    Return("calculate_sortino_ratio",
           <<calculate_sortino_ratio(a, DefaultRiskFree)>>)

\* the alignment step of calculate_alpha_beta alone: the two columns of
\* valid_data
CallAlign ==
    Return("align", <<column0(valid_data(a, b)), column1(valid_data(a, b))>>)

Next ==
    \/ CallCumulativeReturns
    \/ CallAnnualVolatility
    \/ CallSharpeRatio
    \/ CallMaximumDrawdown
    \/ CallVar
    \/ CallTrackingError
    \/ CallInformationRatio
    \/ CallAlphaBeta
    \/ CallSortinoRatio
    \/ CallAlign

Spec == Init /\ [][Next]_vars

(***************************************************************************)
(* main: one pass over the data and results part, for a composed portfolio *)
(***************************************************************************)
Weights == {Zero, Q(1, 2), One}

Asset(ticker, weight) ==
    [ticker |-> ticker, class |-> "Equity", type |-> "Stock",
     weight |-> weight, value |-> Mul(weight, DefaultTotalValue)]

RECURSIVE TotalWeight(_)
TotalWeight(pf) ==
    IF pf = <<>> THEN Zero ELSE Add(pf[1].weight, TotalWeight(Tail(pf)))

\* the portfolios a composition pass leaves: the weights sum to at most 1
Portfolios ==
    {pf \in {<<>>} \cup {<<Asset("AAA", w)>> : w \in Weights}
              \cup {<<Asset("AAA", w[1]), Asset("BBB", w[2])>> :
                        w \in Weights \X Weights} :
        Leq(TotalWeight(pf), One)}

PriceValues == {Q(1, 1), Q(2, 1)}

\* the daily price series of the last len dates up to maxD, len in 0..maxD
SeriesEnding(maxD, V) ==
    UNION {{AsSeq([i \in 1..len |-> Point(maxD - len + i, f[i])]) :
                f \in [1..len -> V]} : len \in 0..maxD}

\* what get_stock_data answers for a ticker: the 'Adj Close' column, empty
\* for no data
StockSeries == SeriesEnding(MaxDates, PriceValues)

\* what get_stock_data answers for the benchmark: an index that moves daily
BenchmarkSeries ==
    {s \in SeriesEnding(MaxDates, PriceValues) :
        \A i \in 1..(Len(s) - 1) : s[i].v # s[i + 1].v}

EngineUnused ==
    /\ a = <<>>
    /\ b = <<>>
    /\ call = "none"
    /\ result = <<>>

MainInit ==
    /\ portfolio \in Portfolios
    /\ data = [t \in Tickers |-> <<>>]
    /\ benchmark_data = <<>>
    /\ pc = "start"
    /\ metrics = <<>>
    /\ EngineUnused
    /\ ComposeIdle
    /\ QueryIdle

\* the tickers main asks get_stock_data for: those with a positive weight
Fetched(pf) == {pf[i].ticker : i \in {j \in 1..Len(pf) : Less(Zero, pf[j].weight)}}

\* lines 219-245 with valid data for some asset
FetchData ==
    /\ pc = "start"
    /\ \E dt \in [Tickers -> StockSeries], bd \in BenchmarkSeries :
          /\ \A t \in Tickers \ Fetched(portfolio) : dt[t] = <<>>
          /\ valid_tickers(portfolio, dt) # <<>>
          /\ data' = dt
          /\ benchmark_data' = bd
    /\ pc' = "fetched"
    /\ UNCHANGED <<composeVars, queryVars, a, b, call, result, portfolio, metrics>>

\* lines 219-232 with no valid data for any asset: a warning, and main returns
FetchNoData ==
    /\ pc = "start"
    /\ pc' = "returned"
    /\ UNCHANGED <<composeVars, queryVars, a, b, call, result, portfolio, data, benchmark_data, metrics>>

\* lines 261-266: plot_cumulative_returns reads benchmark_returns.index, an
\* AttributeError on None that nothing catches
Chart ==
    /\ pc = "fetched"
    /\ pc' = IF cumulative_pair(portfolio, data, benchmark_data)[1] = <<>>
             THEN "charted"
             ELSE IF benchmark_is_none(benchmark_data) THEN "AttributeError"
             ELSE "charted"
    /\ UNCHANGED <<composeVars, queryVars, a, b, call, result, portfolio, data, benchmark_data, metrics>>

\* lines 272-312: the try block; cumulative_returns.iloc[-1] raises
\* IndexError on an empty series, which the except clause turns into a
\* warning; portfolio_returns - None raises a TypeError nothing catches
Results ==
    /\ pc = "charted"
    /\ IF cumulative_pair(portfolio, data, benchmark_data)[1] = <<>>
       THEN pc' = "aborted" /\ metrics' = <<>>
       ELSE IF benchmark_is_none(benchmark_data)
            THEN pc' = "TypeError" /\ metrics' = <<>>
       ELSE pc' = "reported"
            /\ metrics' = metrics_of(portfolio, data, benchmark_data)
    /\ UNCHANGED <<composeVars, queryVars, a, b, call, result, portfolio, data, benchmark_data>>

MainNext ==
    \/ FetchData
    \/ FetchNoData
    \/ Chart
    \/ Results

SpecMain == MainInit /\ [][MainNext]_vars

(***************************************************************************)
(* main: the composition pass (lines 127-209) with add_asset and           *)
(* delete_asset, one pass after the other                                  *)
(***************************************************************************)
\* what the user can type into the ticker field
TickerInputs == {"", "aaa", "AAA", "bbb"}

\* str.upper() on the ticker inputs
upper(t) == CASE t = "aaa" -> "AAA" [] t = "bbb" -> "BBB" [] OTHER -> t

\* the classes the user picks in the class select box
ClassInputs == {"Equity", "Crypto"}

\* ASSET_CLASSES[asset_class]
TypesOf(asset_class) ==
    ASSET_CLASSES[CHOOSE i \in 1..Len(ASSET_CLASSES) :
                     ASSET_CLASSES[i].class = asset_class].types

\* what the user can enter as total portfolio value (min_value = 0.0)
TotalValues == {Zero, DefaultTotalValue}

AllocationTypes == {"% Weighted", "$ Absolute"}

\* the positions of the weight slider (0.0 to 100.0)
SliderValues == {Zero, Q(50, 1), Q(100, 1)}

\* what the value field accepts: 0.0 to total_value
ValueInputs(tv) == {v \in TotalValues : Leq(v, tv)}

Keys(pf) == {pf[i].ticker : i \in 1..Len(pf)}

\* the values of the allocation widgets of one pass, one per asset
WidgetInputs(pf, at, tv) ==
    {w \in [Tickers -> IF at = "% Weighted" THEN SliderValues
                       ELSE ValueInputs(tv)] :
        \A t \in Tickers \ Keys(pf) : w[t] = Zero}

\* add_asset that writes the entry for every non-empty ticker, present or not
add_asset_overwrite(pf, asset_class, ticker_input, asset_type) ==
    LET ticker == upper(ticker_input)
        entry == [ticker |-> ticker, class |-> asset_class, type |-> asset_type,
                  weight |-> Zero, value |-> Zero]
    IN  IF ticker = "" THEN pf
        ELSE IF ticker \in Keys(pf)
        THEN AsSeq([i \in 1..Len(pf) |->
                      IF pf[i].ticker = ticker THEN entry ELSE pf[i]])
        ELSE Append(pf, entry)

\* lines 54-68; the portfolio dictionary is the sequence of its entries in
\* insertion order
add_asset(pf, asset_class, ticker_input, asset_type) ==
    LET ticker == upper(ticker_input)
    IN  IF ticker # "" /\ ticker \notin Keys(pf)
        THEN Append(pf, [ticker |-> ticker, class |-> asset_class,
                         type |-> asset_type, weight |-> Zero, value |-> Zero])
        ELSE pf

\* lines 76-77
delete_asset(pf, ticker) == SelectSeq(pf, LAMBDA asset : asset.ticker # ticker)

\* lines 171-178: the asset takes the value of its widget
allocate(asset, at, value, tv) ==
    IF at = "% Weighted"
    THEN [asset EXCEPT !.weight = Div(value, Q(100, 1)),
                       !.value = Mul(Div(value, Q(100, 1)), tv)]
    ELSE [asset EXCEPT !.value = value,
                       !.weight = IF ~IsZero(tv) THEN Div(value, tv) ELSE Zero]

\* line 176: st.number_input raises when its default, the asset's value,
\* lies above max_value
Refused(asset, at, tv) == at = "$ Absolute" /\ Less(tv, asset.value)

\* lines 148 and 159-160: the assets class by class, each class in
\* dictionary order
RECURSIVE VisitFrom(_, _)
VisitFrom(pf, i) ==
    IF i > Len(ASSET_CLASSES) THEN <<>>
    ELSE SelectSeq(pf, LAMBDA asset : asset.class = ASSET_CLASSES[i].class)
            \o VisitFrom(pf, i + 1)

VisitOrder(pf) == VisitFrom(pf, 1)

\* the portfolio once the first k assets of the visit order are allocated
allocated(pf, k, at, w, tv) ==
    LET done == {VisitOrder(pf)[i].ticker : i \in 1..k}
    IN  AsSeq([i \in 1..Len(pf) |->
                 IF pf[i].ticker \in done
                 THEN allocate(pf[i], at, w[pf[i].ticker], tv) ELSE pf[i]])

\* the pass without lines 205-209
no_normalize(pf, total_weight, tv) == pf

\* lines 205-209
normalize(pf, total_weight, tv) ==
    IF Less(One, total_weight)
    THEN AsSeq([i \in 1..Len(pf) |->
                  [pf[i] EXCEPT !.weight = Div(pf[i].weight, total_weight),
                                !.value = Mul(Div(pf[i].weight, total_weight), tv)]])
    ELSE pf

MainUnused ==
    /\ data = [t \in Tickers |-> <<>>]
    /\ benchmark_data = <<>>
    /\ metrics = <<>>

ComposeInit ==
    /\ portfolio = <<>>
    /\ pc = "compose"
    /\ ComposeIdle
    /\ MainUnused
    /\ EngineUnused
    /\ QueryIdle

\* lines 127-137: the widgets above the Add Asset button
Inputs(tv, asset_class, ticker_input) ==
    /\ total_value' = tv
    /\ new_asset_class' = asset_class
    /\ new_asset_type' = TypesOf(asset_class)[1]
    /\ new_asset_ticker' = ticker_input

\* lines 127-139 with the Add Asset button clicked
AddAsset ==
    /\ pc = "compose"
    /\ \E tv \in TotalValues, c \in ClassInputs, t \in TickerInputs :
          /\ Inputs(tv, c, t)
          /\ portfolio' = add_asset(portfolio, c, t, TypesOf(c)[1])
    /\ pc' = "add_asset"
    /\ UNCHANGED <<a, b, call, result, data, benchmark_data, metrics,
                   allocation_type, widget, queryVars>>

\* lines 127-139 with the button not clicked, the fields of the Add Asset
\* expander left as they are
NoAddAsset ==
    /\ pc = "compose"
    /\ \E tv \in TotalValues : Inputs(tv, new_asset_class, new_asset_ticker)
    /\ pc' = "no_add_asset"
    /\ UNCHANGED <<a, b, call, result, portfolio, data, benchmark_data, metrics,
                   allocation_type, widget, queryVars>>

\* lines 142-209 with no Delete button clicked: every asset allocated, the
\* weights summed and normalized
Compose ==
    /\ pc \in {"add_asset", "no_add_asset"}
    /\ \E at \in AllocationTypes :
          \E w \in WidgetInputs(portfolio, at, total_value) :
             /\ \A i \in 1..Len(portfolio) :
                   ~Refused(portfolio[i], at, total_value)
             /\ allocation_type' = at
             /\ widget' = w
             /\ LET pf == allocated(portfolio, Len(portfolio), at, w, total_value)
                IN  portfolio' = normalize(pf, TotalWeight(pf), total_value)
    /\ pc' = "composed"
    /\ UNCHANGED <<a, b, call, result, data, benchmark_data, metrics,
                   total_value, new_asset_class, new_asset_ticker,
                   new_asset_type, queryVars>>

\* lines 142-183 with the Delete button of the k-th asset visited clicked:
\* the assets up to it are allocated, it is deleted, and st.rerun() ends the
\* pass
DeleteAsset ==
    /\ pc \in {"add_asset", "no_add_asset"}
    /\ \E at \in AllocationTypes, k \in 1..Len(portfolio) :
          \E w \in WidgetInputs(portfolio, at, total_value) :
             /\ \A i \in 1..k :
                   ~Refused(VisitOrder(portfolio)[i], at, total_value)
             /\ allocation_type' = at
             /\ widget' = w
             /\ portfolio' =
                   delete_asset(allocated(portfolio, k, at, w, total_value),
                                VisitOrder(portfolio)[k].ticker)
    /\ pc' = "compose"
    /\ UNCHANGED <<a, b, call, result, data, benchmark_data, metrics,
                   total_value, new_asset_class, new_asset_ticker,
                   new_asset_type, queryVars>>

\* lines 142-176 with an asset whose value lies above the total value in
\* "$ Absolute": the assets visited before it are allocated, then
\* st.number_input raises
ValueAboveMax ==
    /\ pc \in {"add_asset", "no_add_asset"}
    /\ \E k \in 1..Len(portfolio) :
          \E w \in WidgetInputs(portfolio, "$ Absolute", total_value) :
             /\ Refused(VisitOrder(portfolio)[k], "$ Absolute", total_value)
             /\ \A i \in 1..(k - 1) :
                   ~Refused(VisitOrder(portfolio)[i], "$ Absolute", total_value)
             /\ allocation_type' = "$ Absolute"
             /\ widget' = w
             /\ portfolio' =
                   allocated(portfolio, k - 1, "$ Absolute", w, total_value)
    /\ pc' = "StreamlitAPIException"
    /\ UNCHANGED <<a, b, call, result, data, benchmark_data, metrics,
                   total_value, new_asset_class, new_asset_ticker,
                   new_asset_type, queryVars>>

\* the next interaction of the user runs the script again
Rerun ==
    /\ pc \in {"composed", "StreamlitAPIException"}
    /\ pc' = "compose"
    /\ UNCHANGED <<a, b, call, result, portfolio, data, benchmark_data, metrics,
                   composeVars, queryVars>>

ComposeNext ==
    \/ AddAsset
    \/ NoAddAsset
    \/ Compose
    \/ DeleteAsset
    \/ ValueAboveMax
    \/ Rerun

SpecCompose == ComposeInit /\ [][ComposeNext]_vars

(***************************************************************************)
(* exercise2: the crypto_prices table (query.py) as the dashboard          *)
(* (exercise2/main.py) fills it and pages through it                       *)
(***************************************************************************)
\* the coins of the select box
CoinInputs == {"BTC/USDT", "ETH/USDT"}

\* coin.split('/')[0]
split0(coin) == CASE coin = "BTC/USDT" -> "BTC" [] coin = "ETH/USDT" -> "ETH"

\* the rows of the coin, as a set
RowsOf(table, coin) == {table[i] : i \in {j \in 1..Len(table) : table[j].coin = coin}}

\* ORDER BY timestamp DESC: every listing of the rows with the timestamps
\* descending; the query names no further sort key, so the order of rows of
\* equal timestamp is left to the database and may differ from one query to
\* the next
Orderings(R) ==
    {o \in [1..Cardinality(R) -> R] :
        /\ \A i, j \in 1..Cardinality(R) : i # j => o[i] # o[j]
        /\ \A i \in 1..(Cardinality(R) - 1) : o[i].timestamp >= o[i + 1].timestamp}

\* LIMIT page_size OFFSET offset of the ordered rows
limit_offset(ordered, page_size, offset) ==
    SubSeq(AsSeq(ordered), offset + 1,
           IF offset + page_size < Len(ordered) THEN offset + page_size
           ELSE Len(ordered))

\* lines 56-61: the results the query can return
fetch_data_paginated(table, coin, page, page_size) ==
    LET offset == (page - 1) * page_size
    IN  {limit_offset(o, page_size, offset) : o \in Orderings(RowsOf(table, coin))}

\* lines 35-39: id is the next number, timestamp the current second
\* (DEFAULT CURRENT_TIMESTAMP)
insert_data(table, coin, price, current_timestamp) ==
    Append(table, [id |-> Len(table) + 1, coin |-> coin, price |-> price,
                   timestamp |-> current_timestamp])

QueryInit ==
    /\ QueryIdle
    /\ portfolio = NoPortfolio
    /\ pc = "query"
    /\ ComposeIdle
    /\ MainUnused
    /\ EngineUnused

\* exercise2/main.py lines 117-125: update_ohlcv_chart inserts the latest
\* close and shows page 1; the table has changed, the pages loaded before
\* are of an older content
UpdateOhlcvChart ==
    /\ Len(crypto_prices) < MaxRows
    /\ \E coin \in CoinInputs, price \in PriceValues :
          crypto_prices' = insert_data(crypto_prices, split0(coin), price, now)
    /\ browse' = <<>>
    /\ pages' = <<>>
    /\ UNCHANGED <<a, b, call, result, portfolio, data, benchmark_data, pc,
                   metrics, composeVars, now>>

\* a second passes
Tick ==
    /\ now < MaxNow
    /\ now' = now + 1
    /\ UNCHANGED <<a, b, call, result, portfolio, data, benchmark_data, pc,
                   metrics, composeVars, crypto_prices, browse, pages>>

\* exercise2/main.py lines 158-168: Load More Data; the pages loaded of one
\* coin with one page size are kept side by side
LoadMoreData ==
    /\ \E coin \in CoinInputs, page \in 1..MaxPage, page_size \in 1..MaxPageSize :
          \E more_data \in fetch_data_paginated(crypto_prices, split0(coin),
                                                page, page_size) :
             LET view == [coin |-> split0(coin), page_size |-> page_size]
                 kept == IF browse = view THEN pages ELSE <<>>
             IN  /\ browse' = view
                 /\ pages' = [p \in DOMAIN kept \cup {page} |->
                                IF p = page THEN more_data ELSE kept[p]]
    /\ UNCHANGED <<a, b, call, result, portfolio, data, benchmark_data, pc,
                   metrics, composeVars, crypto_prices, now>>

QueryNext ==
    \/ UpdateOhlcvChart
    \/ Tick
    \/ LoadMoreData

SpecQuery == QueryInit /\ [][QueryNext]_vars

(***************************************************************************)
(* Properties of the metrics engine (checked under Spec)                   *)
(***************************************************************************)
\* the timestamps present in both series with a value in both
Common(x, y) ==
    {t \in Index(x) \cap Index(y) : ~IsNaN(At(x, t)) /\ ~IsNaN(At(y, t))}

\* at least two returns, all equal: the standard deviation is zero
ConstantReturns(s) ==
    /\ Len(dropna(s)) >= 2
    /\ \A i, j \in 1..Len(s) : IsNaN(s[i].v) \/ IsNaN(s[j].v) \/ s[i].v = s[j].v

\* C1: calculate_sharpe_ratio on a return series with zero standard
\* deviation (constant returns) yields the not-computable marker, never an
\* infinite value.
C1_SharpeZeroVolatilityNotComputable ==
    (call = "calculate_sharpe_ratio" /\ ConstantReturns(a))
        => IsNaN(result[1])

\* the drawdown terms (cum[i] - peak[i]) / peak[i] of the indices whose
\* running peak is not zero, the undefined ones left out
DefinedDrawdowns(cum) ==
    LET peak == expanding_max(cum)
        terms == {Div(Sub(cum[i].v, peak[i].v), peak[i].v) :
                     i \in {j \in 1..Len(cum) : ~IsZero(peak[j].v)}}
    IN  {d \in terms : ~IsNaN(d)}

\* C2: calculate_maximum_drawdown returns the minimum of
\* (cum[i] - peak[i]) / peak[i] over exactly the indices whose running peak
\* is nonzero; an index whose peak is 0 contributes nothing, neither a
\* number nor minus infinity.
C2_DrawdownIgnoresZeroPeak ==
    (call = "calculate_maximum_drawdown" /\ a # <<>>)
        => LET D == DefinedDrawdowns(calculate_cumulative_returns(a))
           IN  IF D = {} THEN IsNaN(result[1])
               ELSE result[1] \in D /\ \A d \in D : Leq(result[1], d)

\* the benchmark takes one value on all aligned timestamps: zero variance
BenchmarkConstant(x, y) ==
    \A s, t \in Common(x, y) : At(y, s) = At(y, t)

\* C3: calculate_alpha_beta returns the not-computable marker for alpha and
\* for beta whenever fewer than 2 timestamps remain after the inner join and
\* the drop of missing values, or the aligned benchmark has zero variance.
C3_AlphaBetaNotComputable ==
    (/\ call = "calculate_alpha_beta"
     /\ (Cardinality(Common(a, b)) < 2 \/ BenchmarkConstant(a, b)))
        => result = <<NaN, NaN>>

\* C3 witness: two aligned points, a constant benchmark, a varying portfolio
C3_Witness ==
    /\ call = "calculate_alpha_beta"
    /\ Cardinality(Common(a, b)) >= 2
    /\ BenchmarkConstant(a, b)
    /\ \E s, t \in Common(a, b) : At(a, s) # At(a, t)
    /\ result = <<NaN, NaN>>

\* C4: calculate_tracking_error reports not-computable whenever the two
\* series have fewer than 2 timestamps in common with a value in both.
C4_TrackingErrorNeedsTwoPoints ==
    (call = "calculate_tracking_error" /\ Cardinality(Common(a, b)) < 2)
        => IsNaN(result[1])

\* at least two aligned points whose differences are all equal: the standard
\* deviation of the aligned difference is zero
ConstantDifference(x, y) ==
    /\ Cardinality(Common(x, y)) >= 2
    /\ \A s, t \in Common(x, y) :
          Sub(At(x, s), At(y, s)) = Sub(At(x, t), At(y, t))

\* C5: calculate_information_ratio reports not-computable whenever the
\* standard deviation of the aligned difference is zero.
C5_InformationRatioZeroDeviation ==
    (call = "calculate_information_ratio" /\ ConstantDifference(a, b))
        => IsNaN(result[1])

\* C8: calculate_var returns a value that is not negative for every
\* non-empty return series (one that holds a return), and the
\* not-computable marker for an empty one.
C8_VarIsLossMagnitude ==
    call = "calculate_var"
        => /\ a = <<>> => IsNaN(result[1])
           /\ dropna(a) # <<>> => IsNum(result[1]) /\ result[1].n >= 0

\* C9: the alignment step of calculate_alpha_beta yields two series of equal
\* length with identical timestamps in ascending order, the timestamps being
\* exactly those present in both inputs with a value in both; swapping the
\* inputs yields the same timestamps.
C9_AlignmentIsPairedInnerJoin ==
    call = "align"
        => /\ Len(result[1]) = Len(result[2])
           /\ \A i \in 1..Len(result[1]) : result[1][i].t = result[2][i].t
           /\ IsSorted(result[1])
           /\ Index(result[1]) = Common(a, b)
           /\ \A i \in 1..Len(result[1]) :
                 /\ result[1][i].v = At(a, result[1][i].t)
                 /\ result[2][i].v = At(b, result[1][i].t)
           /\ Index(column0(valid_data(b, a))) = Index(result[1])
           /\ Index(column1(valid_data(b, a))) = Index(result[2])

\* C9 witness: a shared timestamp dropped for a value missing in the
\* benchmark, a timestamp of the first series absent from the second, and a
\* timestamp kept
C9_Witness ==
    /\ call = "align"
    /\ result[1] # <<>>
    /\ \E t \in Index(a) \cap Index(b) : ~IsNaN(At(a, t)) /\ IsNaN(At(b, t))
    /\ Index(a) \ Index(b) # {}

\* C10: for a non-empty price series calculate_cumulative_returns returns a
\* series of the same length (and index) whose first value is the first
\* period's return, which is 0.
C10_CumulativeStartsAtZero ==
    (call = "calculate_cumulative_returns" /\ a # <<>>)
        => /\ Len(result) = Len(a)
           /\ \A i \in 1..Len(a) : result[i].t = a[i].t
           /\ result[1].v = fillna(pct_change(a), Zero)[1].v
           /\ result[1].v = Zero

\* C10 witness: a series of several prices whose cumulative return moves
\* away from the initial 0
C10_Witness ==
    /\ call = "calculate_cumulative_returns"
    /\ Len(a) >= 2
    /\ Len(result) = Len(a)
    /\ result[1].v = Zero
    /\ IsNum(result[2].v) /\ result[2].v # Zero

\* a price series as the data fetcher supplies it: every price a number, and
\* none of them zero
NonzeroPrices(s) == \A i \in 1..Len(s) : IsNum(s[i].v) /\ ~IsZero(s[i].v)

\* C11: round trip: for every price series P with nonzero prices, the prices
\* rebuilt from the initial price and the series of
\* calculate_cumulative_returns, P[0] * (1 + cumulative[i]), are P[i] at
\* every index i.
C11_PricesRebuiltFromCumulative ==
    (call = "calculate_cumulative_returns" /\ NonzeroPrices(a))
        => /\ Len(result) = Len(a)
           /\ \A i \in 1..Len(a) :
                 Mul(a[1].v, Add(One, result[i].v)) = a[i].v

\* C11 witness: three prices, up and then down below the initial price
C11_Witness ==
    /\ call = "calculate_cumulative_returns"
    /\ NonzeroPrices(a)
    /\ Len(a) >= 3
    /\ Less(a[1].v, a[2].v) /\ Less(a[3].v, a[1].v)
    /\ Mul(a[1].v, Add(One, result[3].v)) = a[3].v

\* the daily risk-free rate rf / 252 of the default rf
DailyRiskFree == Div(DefaultRiskFree, Q(TradingDays, 1))

\* the returns of s that fall below the daily risk-free rate
Downside(s) == Filter(dropna(s), LAMBDA e : Less(e.v, DailyRiskFree))

\* sqrt(mean(min(r - rf/252, 0)^2)) * sqrt(252), the mean over the returns
\* that are not missing
DownsideDeviation(s) ==
    LET sq == Map(dropna(s),
                  LAMBDA r : IF Less(r, DailyRiskFree)
                             THEN Mul(Sub(r, DailyRiskFree), Sub(r, DailyRiskFree))
                             ELSE Zero)
    IN  Mul(Sqrt(Div(SumV(sq), Q(Len(sq), 1))), SqrtA)

\* C12: calculate_sortino_ratio returns the not-computable marker whenever
\* the downside deviation is 0 (no return falls below rf/252), and otherwise
\* mean(r - rf/252) * 252 divided by the downside deviation; its result is
\* never the infinite value of a division by zero.
C12_SortinoGuardsZeroDownside ==
    (call = "calculate_sortino_ratio" /\ dropna(a) # <<>>)
        => /\ Downside(a) = <<>> => IsNaN(result[1])
           /\ Downside(a) # <<>> =>
                 /\ ~IsZero(DownsideDeviation(a))
                 /\ result[1] =
                       Div(Mul(mean(Map(a, LAMBDA r : Sub(r, DailyRiskFree))),
                               Q(TradingDays, 1)),
                           DownsideDeviation(a))
                 /\ IsNum(result[1])
           /\ ~IsInf(result[1])

\* C12 witness: several returns, all above the daily risk-free rate, and the
\* not-computable marker returned
C12_Witness ==
    /\ call = "calculate_sortino_ratio"
    /\ Len(dropna(a)) >= 2
    /\ Downside(a) = <<>>
    /\ \E i, j \in 1..Len(a) : IsNum(a[i].v) /\ IsNum(a[j].v) /\ a[i].v # a[j].v
    /\ IsNaN(result[1])

\* C14: for every return series b with at least 2 points and nonzero
\* variance calculate_alpha_beta(b, b) returns beta = 1 and alpha = 0: the
\* covariance and the variance of beta = cov(r, b) / var(b) are computed
\* with the same normalisation.
C14_RegressionOnItselfIsIdentity ==
    (/\ call = "calculate_alpha_beta"
     /\ a = b
     /\ Len(dropna(b)) >= 2
     /\ ~BenchmarkConstant(b, b))
        => result = <<Zero, One>>

(***************************************************************************)
(* Properties of main (checked under SpecMain)                             *)
(***************************************************************************)
\* C6: when one metric has insufficient data (say the cumulative series is
\* empty) only that metric is not computable: the metrics computation is
\* never aborted, every metric is reported, and those that need only the
\* portfolio returns carry their value.
C6_MetricsNeverAborted ==
    pc \in {"reported", "aborted"}
        => /\ DOMAIN metrics = MetricNames
           /\ dropna(portfolio_returns_of(portfolio, data)) # <<>>
                 => IsNum(metrics["annRet"])

\* the product of (1 + r_j) over the periods j that have a return
RECURSIVE GrowthProduct(_)
GrowthProduct(r) ==
    IF r = <<>> THEN One
    ELSE IF IsNaN(r[1].v) THEN GrowthProduct(Tail(r))
    ELSE Mul(Add(One, r[1].v), GrowthProduct(Tail(r)))

\* C7: the cumulativeRet reported by main is the product over all periods
\* of (1 + r_j), minus 1, r being the weighted sum of the assets' simple
\* price returns.
C7_CumulativeRetIsCompoundedReturn ==
    pc = "reported"
        => metrics["cumulativeRet"] =
              FormatPercent(Sub(GrowthProduct(portfolio_returns_of(portfolio, data)),
                                One))

\* the metrics that are computed from the portfolio returns alone
PortfolioOnlyMetrics ==
    {"startDate", "endDate", "cumulativeRet", "annRet", "annVol",
     "VaR95 (annually)", "maxDrawdown", "sharpeRatio", "sortinoRatio"}

\* C13: when the benchmark data cannot be fetched (benchmark_returns is
\* None) main proceeds without benchmark comparison: the chart step and the
\* metrics step complete without raising, and the metrics that need no
\* benchmark are reported.
C13_ProceedsWithoutBenchmark ==
    (pc \notin {"start", "fetched", "returned"}
        /\ benchmark_is_none(benchmark_data))
        => /\ pc \in {"charted", "reported"}
           /\ pc = "reported" => PortfolioOnlyMetrics \subseteq DOMAIN metrics

(***************************************************************************)
(* Properties of the composition pass (checked under SpecCompose)          *)
(***************************************************************************)
\* the weight the widget of an asset stands for, before any normalization
EnteredWeight(ticker) ==
    IF allocation_type = "% Weighted" THEN Div(widget[ticker], Q(100, 1))
    ELSE IF IsZero(total_value) THEN Zero
    ELSE Div(widget[ticker], total_value)

RECURSIVE EnteredTotal(_)
EnteredTotal(pf) ==
    IF pf = <<>> THEN Zero
    ELSE Add(EnteredWeight(pf[1].ticker), EnteredTotal(Tail(pf)))

\* C15: at the end of every composition pass of main the weights of all
\* assets sum to at most 1 (exactly 1 when the entered weights summed to
\* more than 1, each being divided by that sum), and the value of every
\* asset is its weight times the total portfolio value.
C15_ComposedPortfolioIsNormalized ==
    pc = "composed"
        => /\ Leq(TotalWeight(portfolio), One)
           /\ Less(One, EnteredTotal(portfolio))
                 => /\ TotalWeight(portfolio) = One
                    /\ \A i \in 1..Len(portfolio) :
                          portfolio[i].weight =
                             Div(EnteredWeight(portfolio[i].ticker),
                                 EnteredTotal(portfolio))
           /\ \A i \in 1..Len(portfolio) :
                 portfolio[i].value = Mul(portfolio[i].weight, total_value)

\* C15 witness: two assets entered with unequal weights that sum to more than
\* 1, normalized at the end of the pass
C15_Witness ==
    /\ pc = "composed"
    /\ Len(portfolio) = 2
    /\ Less(One, EnteredTotal(portfolio))
    /\ portfolio[1].weight # portfolio[2].weight
    /\ TotalWeight(portfolio) = One
    /\ ~IsZero(total_value)

\* C16: add_asset inserts a new entry, keyed by the upper-cased ticker, with
\* weight 0 and value 0, only when the ticker is non-empty and not yet in the
\* portfolio; otherwise the portfolio is left unchanged, so that a repeated
\* add never overwrites the class, type, weight or value of an asset.
C16_AddAssetOnlyInsertsNewTickers ==
    [][(pc = "compose" /\ pc' = "add_asset")
          => LET ticker == upper(new_asset_ticker')
             IN  IF ticker # "" /\ ticker \notin Keys(portfolio)
                 THEN portfolio' =
                         portfolio \o <<[ticker |-> ticker,
                                         class |-> new_asset_class',
                                         type |-> new_asset_type',
                                         weight |-> Zero, value |-> Zero]>>
                 ELSE portfolio' = portfolio]_vars

\* C16 witness: add_asset was called with the ticker, in lower case, of an
\* asset that is in the portfolio with another class and a weight
C16_Witness ==
    /\ pc = "add_asset"
    /\ new_asset_ticker # upper(new_asset_ticker)
    /\ \E i \in 1..Len(portfolio) :
          /\ portfolio[i].ticker = upper(new_asset_ticker)
          /\ portfolio[i].class # new_asset_class
          /\ ~IsZero(portfolio[i].weight)

(***************************************************************************)
(* Properties of the paginated query (checked under SpecQuery)             *)
(***************************************************************************)
\* the ids of the rows of a page
Ids(rows) == {rows[i].id : i \in 1..Len(rows)}

====
